---- MODULE Spec2Model ----
(***************************************************************************)
(* MaskClipHead (mmseg/models/decode_heads/maskclip_head.py): the frozen   *)
(* weight loaders, the forward path and the inference-time refinement      *)
(* pipeline, as a state machine.                                           *)
(*                                                                         *)
(* Tensors are functions over 1-based index ranges; a tensor of the source *)
(* indexed [n, c, h, w] is output[n][c][p] here, p ranging over the H*W    *)
(* spatial positions (refine_output itself flattens H and W wherever it    *)
(* looks across positions).  Numbers are exact rationals <<num, den>>.     *)
(***************************************************************************)
EXTENDS Integers, Sequences, FiniteSets, TLC

\* ------------------------------------------------------------------ bounds
MaxCat == 3
MaxBatch == 2
MaxVote == 2
HW == 2
MaxChan == 2

\* ------------------------------------------------------- program constants
SENTINEL == -100
SCALE == 100
\* float32: exp(x) is exactly 0 for x <= -104
EXP_UNDERFLOW == 104

\* --------------------------------------------------------------- rationals
RECURSIVE GCD(_, _)
GCD(a, b) == IF b = 0 THEN a ELSE GCD(b, a % b)

Abs(x) == IF x < 0 THEN -x ELSE x

Rat(n, d) ==
    IF d = 1 THEN <<n, 1>>
    ELSE LET s == IF d < 0 THEN -1 ELSE 1
             g == GCD(Abs(n), Abs(d))
         IN  <<(s * n) \div g, (s * d) \div g>>

RInt(i) == <<i, 1>>
RZero == <<0, 1>>
ROne == <<1, 1>>

RAdd(a, b) ==
    IF a[2] = b[2] THEN Rat(a[1] + b[1], a[2])
    ELSE LET g == GCD(a[2], b[2])
             l == (a[2] \div g) * b[2]
         IN  Rat(a[1] * (l \div a[2]) + b[1] * (l \div b[2]), l)

RMul(a, b) ==
    IF a[1] = 0 \/ b[1] = 0 THEN RZero
    ELSE IF a[2] = 1 /\ b[2] = 1 THEN <<a[1] * b[1], 1>>
    ELSE LET g1 == GCD(Abs(a[1]), b[2])
             g2 == GCD(Abs(b[1]), a[2])
         IN  Rat((a[1] \div g1) * (b[1] \div g2), (a[2] \div g2) * (b[2] \div g1))

RLt(a, b) ==
    IF a[2] = b[2] THEN a[1] < b[1]
    ELSE LET g == GCD(a[2], b[2]) IN a[1] * (b[2] \div g) < b[1] * (a[2] \div g)

RLe(a, b) ==
    IF a[2] = b[2] THEN a[1] <= b[1]
    ELSE LET g == GCD(a[2], b[2]) IN a[1] * (b[2] \div g) <= b[1] * (a[2] \div g)

RECURSIVE RSumTo(_, _)
RSumTo(s, n) == IF n = 0 THEN RZero ELSE RAdd(RSumTo(s, n - 1), s[n])

\* the sum of a sequence of rationals
RSumSeq(s) == LET t == s \o <<>> IN RSumTo(t, Len(t))

RECURSIVE SumTo(_, _)
SumTo(s, n) == IF n = 0 THEN 0 ELSE SumTo(s, n - 1) + s[n]

SumSeq(s) == LET t == s \o <<>> IN SumTo(t, Len(t))

RSub(a, b) == RAdd(a, <<-b[1], b[2]>>)

\* the largest element of a non-empty set of rationals
RMaxSet(S) == CHOOSE x \in S : \A y \in S : RLe(y, x)

\* the integer square root of a perfect square
ISqrt(s) == CHOOSE r \in 0..s : r * r = s

\* the square root of a rational in lowest terms whose parts are squares
RSqrt(a) == <<ISqrt(a[1]), ISqrt(a[2])>>

RDiv(a, b) == RMul(a, Rat(b[2], b[1]))

RVec(v) == [j \in DOMAIN v |-> RInt(v[j])]

\* ----------------------------------------------------------------- tensors
\* A persisted tensor: its shape and its elements in row-major order.
RECURSIVE Numel(_)
Numel(shape) == IF shape = <<>> THEN 1 ELSE Head(shape) * Numel(Tail(shape))

Tensor(shape, data) == [shape |-> shape, data |-> data]

Ramp(n, sign) == [i \in 1..n |-> sign * i]

\* torch.randn / a fresh nn.Conv2d: values no artifact holds
RandnVals == {-1, 1}
Filled(shape, v) == Tensor(shape, [i \in 1..Numel(shape) |-> v])

\* -------------------------------------------------- the files on the disk
NoFile == [exists |-> FALSE, shape |-> <<>>, at |-> <<>>]

\* Text-embedding artifacts: a 2-D matrix (rows x cols) or a 1-D vector, in one
\* of three value patterns.  Entries are multiples of 10, so that two class
\* scores of one pixel are equal or differ by at least 2.
EmbPatterns == {1, 2, 3}

EmbEntry(pat, rows, cols, i, j) ==
    CASE pat = 1 -> IF i = rows \/ ((i - 1) % cols) + 1 = j THEN 10 ELSE 0
      [] pat = 2 -> IF ((i - 1) % cols) + 1 = j THEN 10 ELSE 0
      [] OTHER   -> 10

TextArtifact(pat, rows, cols) ==
    [exists |-> TRUE, shape |-> <<rows, cols>>,
     at |-> [i \in 1..rows |-> [j \in 1..cols |-> EmbEntry(pat, rows, cols, i, j)]]]

TextVector(pat, cols) ==
    [exists |-> TRUE, shape |-> <<cols>>,
     at |-> [i \in 1..1 |-> [j \in 1..cols |-> EmbEntry(pat, 1, cols, 1, j)]]]

TextFiles ==
    {NoFile}
    \cup {TextArtifact(pat, r, c) : pat \in EmbPatterns, r \in 1..MaxCat, c \in 1..MaxChan}
    \cup {TextVector(2, c) : c \in 1..MaxChan}

\* Projection artifacts: a dict attr -> state_dict.  fmt is the number of
\* dimensions of every weight entry (2: plain linear weights, 4: pre-expanded
\* convolution weights); inC/outC are the artifact's own channel counts; bias
\* tells whether each sub-state has a bias entry; attrs are the sub-states the
\* file holds.
AllAttrs == {"proj", "q_proj", "k_proj", "v_proj", "c_proj"}

OutOf(attr, inC, outC) == IF attr \in {"proj", "c_proj"} THEN outC ELSE inC

StateDict(attr, fmt, inC, outC, bias) ==
    LET o == OutOf(attr, inC, outC)
        shape == IF fmt = 2 THEN <<o, inC>> ELSE <<o, inC, 1, 1>>
    IN  [weight    |-> Tensor(shape, Ramp(o * inC, 1)),
         hasBias   |-> bias,
         bias      |-> IF bias THEN Tensor(<<o>>, Ramp(o, -1)) ELSE Tensor(<<>>, <<>>)]

ProjArtifact(fmt, inC, outC, bias, attrs) ==
    [exists |-> TRUE, fmt |-> fmt, attrs |-> attrs,
     sub |-> [a \in AllAttrs |-> StateDict(a, fmt, inC, outC, bias)]]

\* The projection weights the forward runs use: 2-D weights over two input and
\* two text channels.  A ViT artifact holds 'proj' (no bias), a ResNet
\* artifact the four attention-pooling projections.
ClipWeight(attr) ==
    CASE attr = "proj"   -> <<3, -3, 4, 4>>
      [] attr = "q_proj" -> <<1, 2, 3, 4>>
      [] attr = "k_proj" -> <<-4, -3, -3, -4>>
      [] attr = "v_proj" -> <<1, 2, 3, 4>>
      [] attr = "c_proj" -> <<-3, -1, 11, -3>>

ClipBias(attr) ==
    CASE attr = "proj"   -> <<>>
      [] attr = "q_proj" -> <<-1, -2>>
      [] attr = "k_proj" -> <<7, 7>>
      [] attr = "v_proj" -> <<-1, -2>>
      [] attr = "c_proj" -> <<11, 3>>

ClipArtifact(vit) ==
    [exists |-> TRUE, fmt |-> 2,
     attrs |-> IF vit THEN {"proj"} ELSE AllAttrs \ {"proj"},
     sub |-> [a \in AllAttrs |->
                [weight  |-> Tensor(<<ISqrt(Len(ClipWeight(a))), ISqrt(Len(ClipWeight(a)))>>,
                                    ClipWeight(a)),
                 hasBias |-> a # "proj",
                 bias    |-> IF a # "proj" THEN Tensor(<<Len(ClipBias(a))>>, ClipBias(a))
                             ELSE Tensor(<<>>, <<>>)]]]

\* the channel counts of that artifact
ClipInChannels == ClipArtifact(FALSE).sub["k_proj"].weight.shape[2]
ClipTextChannels == ClipArtifact(FALSE).sub["c_proj"].weight.shape[1]

ProjFiles ==
    {[exists |-> FALSE, fmt |-> 2, attrs |-> {},
      sub |-> [a \in AllAttrs |-> StateDict(a, 2, 1, 1, FALSE)]]}
    \cup {ClipArtifact(v) : v \in BOOLEAN}
    \cup {ProjArtifact(fmt, i, o, b, attrs) :
            fmt \in {2, 4}, i \in 1..MaxChan, o \in 1..MaxChan, b \in BOOLEAN,
            attrs \in {AllAttrs, AllAttrs \ {"c_proj"}}}

\* ------------------------------------------------------------ construction
\* __init__: register_buffer('text_embeddings', torch.randn(...)) and the
\* projection convolutions (1x1; the vit projection has no bias).
FreshBuffer(cfg, v) ==
    [i \in 1..cfg.text_categories |-> [j \in 1..cfg.text_channels |-> v]]

FreshConv(outC, inC, bias, v) ==
    [weight  |-> Filled(<<outC, inC, 1, 1>>, v),
     hasBias |-> bias,
     bias    |-> IF bias THEN Filled(<<outC>>, v) ELSE Tensor(<<>>, <<>>)]

Attrs(vit) == IF vit THEN <<"proj">> ELSE <<"q_proj", "k_proj", "v_proj", "c_proj">>

FreshProjs(cfg, v) ==
    [a \in AllAttrs |->
        FreshConv(OutOf(a, cfg.in_channels, cfg.text_channels), cfg.in_channels,
                  a # "proj", v)]

\* ----------------------------------------------------- load_text_embeddings
\* self.text_embeddings[:, :] = loaded[:, :]
\* torch.load raises on a missing file; loaded[:, :] raises IndexError on a
\* tensor of fewer than two dimensions; the slice assignment broadcasts the
\* right-hand side over the buffer wherever one of its sizes is 1, and raises
\* when a size is neither 1 nor the buffer's.
Broadcastable(src, dst) == src = dst \/ src = 1

LoadTextEmbeddings(buf, loaded) ==
    LET R == Len(buf)
        Ch == Len(buf[1])
    IN  IF ~loaded.exists THEN [ok |-> FALSE, err |-> "FileNotFoundError", buf |-> buf]
        ELSE IF Len(loaded.shape) < 2
        THEN [ok |-> FALSE, err |-> "IndexError", buf |-> buf]
        ELSE IF ~(Broadcastable(loaded.shape[1], R) /\ Broadcastable(loaded.shape[2], Ch))
        THEN [ok |-> FALSE, err |-> "RuntimeError", buf |-> buf]
        ELSE [ok |-> TRUE, err |-> "",
              buf |-> [i \in 1..R |-> [j \in 1..Ch |->
                          loaded.at[IF loaded.shape[1] = 1 THEN 1 ELSE i]
                                   [IF loaded.shape[2] = 1 THEN 1 ELSE j]]]]

\* ------------------------------------------------------- load_visual_projs
\* state_dict[key] = state_dict[key][:, :, None, None] for every key holding
\* 'weight': two singleton dimensions are inserted after the first two,
\* whatever the number of dimensions of the entry.
ExpandWeight(t) ==
    Tensor(<<t.shape[1], t.shape[2], 1, 1>> \o SubSeq(t.shape, 3, Len(t.shape)), t.data)

\* nn.Module.load_state_dict (strict): every entry whose shape equals the
\* parameter's is copied; a missing key, an unexpected key or a shape
\* mismatch raises after the copies.
LoadStateDict(conv, sd) ==
    LET w == ExpandWeight(sd.weight)
        wOk == w.shape = conv.weight.shape
        bOk == conv.hasBias = sd.hasBias
               /\ (conv.hasBias => sd.bias.shape = conv.bias.shape)
    IN  [ok   |-> wOk /\ bOk,
         conv |-> [weight  |-> IF wOk THEN w ELSE conv.weight,
                   hasBias |-> conv.hasBias,
                   bias    |-> IF conv.hasBias /\ sd.hasBias
                                  /\ sd.bias.shape = conv.bias.shape
                               THEN sd.bias ELSE conv.bias]]

\* for attr in attrs: ... current_attr.load_state_dict(state_dict)
\* The loop stops at the first attr that raises; the attrs before it stay
\* loaded.
RECURSIVE LoadAttrs(_, _, _)
LoadAttrs(ps, loaded, attrs) ==
    IF attrs = <<>> THEN [ok |-> TRUE, err |-> "", projs |-> ps]
    ELSE LET a == Head(attrs)
         IN  IF a \notin loaded.attrs
             THEN [ok |-> FALSE, err |-> "KeyError", projs |-> ps]
             ELSE LET r == LoadStateDict(ps[a], loaded.sub[a])
                      ps2 == [ps EXCEPT ![a] = r.conv]
                  IN  IF ~r.ok
                      THEN [ok |-> FALSE, err |-> "RuntimeError", projs |-> ps2]
                      ELSE LoadAttrs(ps2, loaded, Tail(attrs))

LoadVisualProjs(ps, loaded, vit) ==
    IF ~loaded.exists THEN [ok |-> FALSE, err |-> "FileNotFoundError", projs |-> ps]
    ELSE LoadAttrs(ps, loaded, Attrs(vit))

\* The element of a one-element set.  In The({e : v \in {x}}) the value x is
\* computed once, before e, the way a statement's result is held in a local.
The(S) == CHOOSE y \in S : TRUE

\* A tensor computed element by element is held as nested tuples.
T1(v) == v \o <<>>
T2(m) == [i \in DOMAIN m |-> T1(m[i])] \o <<>>
T3(t) == [i \in DOMAIN t |-> T2(t[i])] \o <<>>

\* ------------------------------------------------------------- projections
\* F.linear(x, weight, bias) on one vector; weight holds (out, in, 1, 1) (or
\* (out, in)) elements in row-major order.
Linear(conv, x) ==
    LET outC == conv.weight.shape[1]
        inC == conv.weight.shape[2]
    IN  T1([o \in 1..outC |->
            RAdd(RSumSeq([i \in 1..inC |->
                            RMul(RInt(conv.weight.data[(o - 1) * inC + i]), x[i])]),
                 IF conv.hasBias THEN RInt(conv.bias.data[o]) ELSE RZero)])

\* a 1x1 nn.Conv2d applied to x[n][p]: the same linear map at every position
Conv2d(conv, x) ==
    T3([n \in DOMAIN x |-> [p \in DOMAIN x[n] |-> Linear(conv, x[n][p])]])

\* softmax over the keys of one query, float32: a score equal to the largest
\* weighs 1 and one at least EXP_UNDERFLOW below it (after the division by
\* sqrt(head_dim)) weighs 0.  diff is the unscaled score minus the largest.
AttnExp(diff, head_dim) ==
    CASE diff = RZero -> 1
      [] RLe(RInt(EXP_UNDERFLOW * EXP_UNDERFLOW * head_dim), RMul(diff, diff)) -> 0

\* F.multi_head_attention_forward(query=x, key=x, value=x, ...,
\*   use_separate_proj_weight=True, dropout_p=0, need_weights=False) on the
\* tokens of one sample: the in-projections, per head the scaled dot-product
\* attention, then the out-projection.  embed_dim must be a multiple of
\* num_heads.
\* F.linear on every token
InProj(conv, tokens) == T2([i \in DOMAIN tokens |-> Linear(conv, tokens[i])])

\* score[h][i][j]: the dot product of query i and key j over the channels of
\* head h (channel d belongs to head (d - 1) \div head_dim + 1)
AttnScores(q, k, num_heads) ==
    T3([h \in 1..num_heads |-> [i \in DOMAIN q |-> [j \in DOMAIN k |->
        RSumSeq([d \in DOMAIN q[i] |->
            IF ((d - 1) \div (Len(q[i]) \div num_heads)) + 1 = h
            THEN RMul(q[i][d], k[j][d]) ELSE RZero])]]])

\* softmax(score / sqrt(head_dim)) over the keys, before the division by the sum
AttnWeights(score, head_dim) ==
    T3([h \in DOMAIN score |-> [i \in DOMAIN score[h] |-> [j \in DOMAIN score[h][i] |->
        AttnExp(RSub(score[h][i][j], RMaxSet({score[h][i][m] : m \in DOMAIN score[h][i]})),
                head_dim)]]])

\* the attention-weighted values, the heads concatenated
AttnValues(w, v, num_heads) ==
    T2([i \in DOMAIN w[1] |-> [d \in DOMAIN v[i] |->
        RDiv(RSumSeq([j \in DOMAIN v |->
                RMul(RInt(w[((d - 1) \div (Len(v[i]) \div num_heads)) + 1][i][j]), v[j][d])]),
             RInt(SumSeq(w[((d - 1) \div (Len(v[i]) \div num_heads)) + 1][i])))]])

MultiHeadAttention(ps, num_heads, tokens) ==
    InProj(ps["c_proj"],
           AttnValues(AttnWeights(AttnScores(InProj(ps["q_proj"], tokens),
                                             InProj(ps["k_proj"], tokens), num_heads),
                                  Len(tokens[1]) \div num_heads),
                      InProj(ps["v_proj"], tokens), num_heads))

\* x.mean(dim=0, keepdim=True) over the positions of one sample
MeanToken(xs) ==
    T1([c \in DOMAIN xs[1] |-> RDiv(RSumSeq([p \in DOMAIN xs |-> xs[p][c]]), RInt(Len(xs)))])

\* the attention-pooled branch of forward (lines 87-110) on one sample: the
\* tokens are the mean over the positions followed by the positions; the
\* mean token's output is dropped (x[1:]).
AttnPoolSample(ps, num_heads, xs) ==
    Tail(MultiHeadAttention(ps, num_heads, <<MeanToken(xs)>> \o xs))

AttnPool(ps, num_heads, x) ==
    IF (Len(x[1][1]) \div num_heads) * num_heads # Len(x[1][1])
    THEN [ok |-> FALSE, err |-> "AssertionError", feat |-> <<>>]
    ELSE [ok |-> TRUE, err |-> "",
          feat |-> T1([n \in DOMAIN x |-> AttnPoolSample(ps, num_heads, x[n])])]

\* ----------------------------------------------------------------- cls_seg
\* feat = feat / feat.norm(dim=1, keepdim=True)
\* output = F.conv2d(feat, self.text_embeddings[:, :, None, None])
\* feat[n][p] is the embedding vector of pixel p of sample n; the result is
\* output[n][c][p], one channel per row of the text-embedding table.
ClsSeg(feat, emb) ==
    T3(
    [n \in DOMAIN feat |-> [c \in DOMAIN emb |-> [p \in DOMAIN feat[n] |->
        LET v == feat[n][p]
            norm == RSqrt(RSumSeq([j \in DOMAIN v |-> RMul(v[j], v[j])]))
        IN  RDiv(RSumSeq([j \in DOMAIN v |-> RMul(v[j], RInt(emb[c][j]))]), norm)]]])

\* ----------------------------------------------------- F.softmax(x*100, 1)
\* float32 exp of a non-positive argument: 1 at 0 and exactly 0 from
\* -EXP_UNDERFLOW down.  The scores this model feeds the softmax are equal
\* or at least 2 apart, so no other argument occurs.
ExpF32(d) ==
    CASE d = RZero -> 1
      [] RLe(d, RInt(-EXP_UNDERFLOW)) -> 0

Softmax(output) ==
    T3(
    [n \in DOMAIN output |-> [c \in DOMAIN output[n] |-> [p \in DOMAIN output[n][c] |->
        LET C == Len(output[n])
            m == RMaxSet({output[n][d][p] : d \in 1..C})
            w == [d \in 1..C |-> ExpF32(RMul(RInt(SCALE), RSub(output[n][d][p], m)))]
        IN  Rat(w[c], SumSeq(w))]]])

\* ------------------------------------------------------------ refine_output
\* Stage 1, top-k gating (lines 133-141).
\* cls_pred = cls_token @ text_embeddings.t()
ClsPred(cls_token, emb) ==
    T2(
    [n \in DOMAIN cls_token |-> [c \in DOMAIN emb |->
        RSumSeq([j \in DOMAIN emb[c] |-> RMul(cls_token[n][j], RInt(emb[c][j]))])]])

\* cls_pred.topk(k, dim=1): every set of k classes none of which scores below
\* a class left out (the order among equal scores is the library's choice).
TopkSets(pred, k) ==
    {S \in SUBSET (DOMAIN pred) :
        /\ Cardinality(S) = k
        /\ \A a \in S : \A b \in (DOMAIN pred) \ S : RLe(pred[b], pred[a])}

FullLike(output, v) ==
    T3(
    [n \in DOMAIN output |-> [c \in DOMAIN output[n] |-> [p \in DOMAIN output[n][c] |->
        RInt(v)]]])

\* zeros[selected_cls] = output[selected_cls]
\* selected_cls is an integer tensor, so it indexes the FIRST dimension of
\* zeros and output: each selected class number is used as a sample number
\* (0-based in the source, 1-based here), the whole sample is copied, and a
\* class number past the batch raises IndexError.
TopkStage(output, sel) ==
    LET N == Len(output)
        idx == UNION {sel[n] : n \in 1..N}
        zeros == FullLike(output, SENTINEL)
    IN  IF \E c \in idx : c > N
        THEN [ok |-> FALSE, err |-> "IndexError", output |-> <<>>]
        ELSE [ok |-> TRUE, err |-> "",
              output |-> [n \in 1..N |-> IF n \in idx THEN output[n] ELSE zeros[n]]]

\* Stage 2, confidence-threshold gating (lines 142-147).
MaxClsConf(conf, n, c) == RMaxSet({conf[n][c][p] : p \in DOMAIN conf[n][c]})

\* a gating that suppresses pixel by pixel instead of whole channels
ClsThreshStage_PerPixel(output, cls_thresh) ==
    LET conf == Softmax(output)
    IN  T3([n \in DOMAIN output |-> [c \in DOMAIN output[n] |->
            [p \in DOMAIN output[n][c] |->
                IF RLt(conf[n][c][p], cls_thresh) THEN RInt(SENTINEL)
                ELSE output[n][c][p]]]])

ClsThreshStage(output, cls_thresh) ==
    T3(
    LET conf == Softmax(output)
    IN  [n \in DOMAIN output |-> [c \in DOMAIN output[n] |->
            IF RLt(MaxClsConf(conf, n, c), cls_thresh)
            THEN [p \in DOMAIN output[n][c] |-> RInt(SENTINEL)]
            ELSE output[n][c]]])

\* Stage 3, spatial-affinity voting (lines 149-187).
\* k = F.normalize(k, p=2): the default dim is 1, which for k of shape
\* (N, H*W, channels) is the token axis; a zero column stays zero.
Normalize(k) ==
    T3(
    [n \in DOMAIN k |-> [p \in DOMAIN k[n] |-> [c \in DOMAIN k[n][p] |->
        LET norm == RSqrt(RSumSeq([q \in DOMAIN k[n] |-> RMul(k[n][q][c], k[n][q][c])]))
        IN  IF norm = RZero THEN RZero ELSE RDiv(k[n][p][c], norm)]]])

\* attn = k @ k.transpose(-2, -1)
Affinity(k) ==
    The({T3([n \in DOMAIN kn |-> [p \in DOMAIN kn[n] |-> [q \in DOMAIN kn[n] |->
            RSumSeq([c \in DOMAIN kn[n][p] |-> RMul(kn[n][p][c], kn[n][q][c])])]]])
         : kn \in {Normalize(k)}})

\* attn @ output, output laid out (N, H*W, C) in the source
VoteOutput(attn, output) ==
    T3(
    [n \in DOMAIN output |-> [c \in DOMAIN output[n] |-> [p \in DOMAIN output[n][c] |->
        RSumSeq([q \in DOMAIN output[n][c] |-> RMul(attn[n][p][q], output[n][c][q])])]]])

\* output.max(dim=-1)[0] at one pixel: the maximum over the channels
MaxConf(output, n, p) == RMaxSet({output[n][c][p] : c \in DOMAIN output[n]})

\* one iteration of the loop of line 162
VoteStep(output, attn, vote_thresh, i) ==
    T3(
    LET vote_output == VoteOutput(attn, output)
    IN  IF Len(vote_thresh) > 0
        THEN [n \in DOMAIN output |-> [c \in DOMAIN output[n] |->
                [p \in DOMAIN output[n][c] |->
                    IF RLt(MaxConf(output, n, p), vote_thresh[i])
                    THEN vote_output[n][c][p]
                    ELSE output[n][c][p]]]]
        ELSE vote_output)

\* the loop: trace holds the distribution before the first iteration and after
\* each one; vote_thresh[i] past the end of the list raises IndexError
RECURSIVE VoteLoop(_, _, _, _, _, _)
VoteLoop(output, attn, vote_thresh, num_vote, i, trace) ==
    IF i > num_vote THEN [ok |-> TRUE, err |-> "", output |-> output, trace |-> trace]
    ELSE IF Len(vote_thresh) > 0 /\ i > Len(vote_thresh)
    THEN [ok |-> FALSE, err |-> "IndexError", output |-> <<>>, trace |-> trace]
    ELSE The({VoteLoop(o2, attn, vote_thresh, num_vote, i + 1, Append(trace, o2))
              : o2 \in {VoteStep(output, attn, vote_thresh, i)}})

\* Stage 4, background synthesis (lines 189-199).
\* a maximum that starts one channel early: output[:, num_classes - 1:]
ExtraMax_OneEarly(output, num_classes) ==
    T2([n \in DOMAIN output |-> [p \in DOMAIN output[n][1] |->
        RMaxSet({output[n][c][p] : c \in num_classes..Len(output[n])})]])

\* torch.max(output[:, num_classes:], dim=1, keepdim=True)
ExtraMax(output, num_classes) ==
    T2(
    [n \in DOMAIN output |-> [p \in DOMAIN output[n][1] |->
        RMaxSet({output[n][c][p] : c \in (num_classes + 1)..Len(output[n])})]])

\* torch.cat([bg_output, output[:, :self.num_classes]], dim=1)
CatBg(bg, output, num_classes) ==
    T3(
    [n \in DOMAIN output |->
        <<bg[n]>> \o SubSeq(output[n], 1, IF num_classes < Len(output[n])
                                          THEN num_classes ELSE Len(output[n]))])

\* a gating that tests cls_thresh before topk_text
GateStage_ClsFirst(cfg, output, hasCls, sel) ==
    IF RLt(RZero, cfg.cls_thresh)
    THEN [ok |-> TRUE, err |-> "", gate |-> "cls_thresh",
          output |-> ClsThreshStage(output, cfg.cls_thresh)]
    ELSE IF cfg.topk_text > 0
    THEN IF ~hasCls
         THEN [ok |-> FALSE, err |-> "AssertionError", output |-> <<>>, gate |-> "topk"]
         ELSE IF cfg.topk_text > Len(output[1])
         THEN [ok |-> FALSE, err |-> "RuntimeError", output |-> <<>>, gate |-> "topk"]
         ELSE The({[ok |-> r.ok, err |-> r.err, output |-> r.output, gate |-> "topk"]
                   : r \in {TopkStage(output, sel)}})
    ELSE [ok |-> TRUE, err |-> "", output |-> output, gate |-> "none"]

\* the three stages in the order of the source; each yields the output it
\* hands to the next stage and whether it ran
GateStage(cfg, output, hasCls, sel) ==
    IF cfg.topk_text > 0
    THEN IF ~hasCls
         THEN [ok |-> FALSE, err |-> "AssertionError", output |-> <<>>, gate |-> "topk"]
         ELSE IF cfg.topk_text > Len(output[1])
         THEN [ok |-> FALSE, err |-> "RuntimeError", output |-> <<>>, gate |-> "topk"]
         ELSE The({[ok |-> r.ok, err |-> r.err, output |-> r.output, gate |-> "topk"]
                   : r \in {TopkStage(output, sel)}})
    ELSE IF RLt(RZero, cfg.cls_thresh)
    THEN [ok |-> TRUE, err |-> "", gate |-> "cls_thresh",
          output |-> ClsThreshStage(output, cfg.cls_thresh)]
    ELSE [ok |-> TRUE, err |-> "", output |-> output, gate |-> "none"]

VoteStage(cfg, output, output2logits, hasK, k) ==
    IF hasK /\ cfg.num_vote > 0
    THEN The({The({[ok |-> r.ok, err |-> r.err, output |-> r.output,
                    output2logits |-> TRUE, voted |-> TRUE,
                    nSoftmax |-> IF ~output2logits THEN 1 ELSE 0,
                    trace |-> r.trace, attn |-> attn]
                   : r \in {VoteLoop(o1, attn, cfg.vote_thresh, cfg.num_vote, 1, <<o1>>)}})
              : o1 \in {IF ~output2logits THEN Softmax(output) ELSE output},
                attn \in {Affinity(k)}})
    ELSE [ok |-> TRUE, err |-> "", output |-> output, output2logits |-> output2logits,
          voted |-> FALSE, nSoftmax |-> 0, trace |-> <<>>, attn |-> <<>>]

\* a background stage that takes bg_thresh = 0 for a configured threshold
BgStage_ThreshNotNegative(cfg, output, output2logits) ==
    IF cfg.text_categories > cfg.num_classes
    THEN [output |-> CatBg(ExtraMax(output, cfg.num_classes), output, cfg.num_classes),
          output2logits |-> output2logits, bg |-> "extra", nSoftmax |-> 0]
    ELSE IF RLe(RZero, cfg.bg_thresh)
    THEN The({[output |-> CatBg([n \in DOMAIN o1 |-> [p \in DOMAIN o1[n][1] |-> cfg.bg_thresh]],
                                o1, cfg.num_classes),
               output2logits |-> TRUE, bg |-> "thresh",
               nSoftmax |-> IF ~output2logits THEN 1 ELSE 0]
              : o1 \in {IF ~output2logits THEN Softmax(output) ELSE output}})
    ELSE [output |-> output, output2logits |-> output2logits, bg |-> "none",
          nSoftmax |-> 0]

\* a background stage whose bg_thresh branch never converts the output
BgStage_NoConversion(cfg, output, output2logits) ==
    IF cfg.text_categories > cfg.num_classes
    THEN [output |-> CatBg(ExtraMax(output, cfg.num_classes), output, cfg.num_classes),
          output2logits |-> output2logits, bg |-> "extra", nSoftmax |-> 0]
    ELSE IF RLt(RZero, cfg.bg_thresh)
    THEN The({[output |-> CatBg([n \in DOMAIN o1 |-> [p \in DOMAIN o1[n][1] |-> cfg.bg_thresh]],
                                o1, cfg.num_classes),
               output2logits |-> TRUE, bg |-> "thresh",
               nSoftmax |-> IF ~output2logits THEN 1 ELSE 0]
              : o1 \in {output}})
    ELSE [output |-> output, output2logits |-> output2logits, bg |-> "none",
          nSoftmax |-> 0]

BgStage(cfg, output, output2logits) ==
    IF cfg.text_categories > cfg.num_classes
    THEN [output |-> CatBg(ExtraMax(output, cfg.num_classes), output, cfg.num_classes),
          output2logits |-> output2logits, bg |-> "extra", nSoftmax |-> 0]
    ELSE IF RLt(RZero, cfg.bg_thresh)
    THEN The({[output |-> CatBg([n \in DOMAIN o1 |-> [p \in DOMAIN o1[n][1] |-> cfg.bg_thresh]],
                                o1, cfg.num_classes),
               output2logits |-> TRUE, bg |-> "thresh",
               nSoftmax |-> IF ~output2logits THEN 1 ELSE 0]
              : o1 \in {IF ~output2logits THEN Softmax(output) ELSE output}})
    ELSE [output |-> output, output2logits |-> output2logits, bg |-> "none",
          nSoftmax |-> 0]

\* What one pass leaves behind: the value returned (or the exception), and
\* the intermediate values of the pass.
\*   raw     cls_seg's output          gated   the output after stages 1/2
\*   preBg   the output entering stage 4
\*   trace   the distribution before the first vote and after each vote
\*   sel     the classes topk selected, per sample
\*   refined whether refine_output was called
Pass(status, err, raw, output, flag, gate, voted, bg, nSoftmax, gated, preBg, trace, attn) ==
    [status |-> status, err |-> err, raw |-> raw, output |-> output,
     output2logits |-> flag, gate |-> gate, voted |-> voted,
     bg |-> bg, nSoftmax |-> nSoftmax, gated |-> gated, preBg |-> preBg,
     trace |-> trace, attn |-> attn, sel |-> <<>>, refined |-> FALSE]

NoPass == Pass("none", "", <<>>, <<>>, FALSE, "none", FALSE, "none", 0, <<>>, <<>>, <<>>, <<>>)

RefineOutput(cfg, output, hasK, k, hasCls, sel) ==
    The({
        IF ~g.ok
        THEN Pass("error", g.err, output, <<>>, FALSE, g.gate, FALSE, "none", 0,
                  <<>>, <<>>, <<>>, <<>>)
        ELSE The({
            IF ~v.ok
            THEN Pass("error", v.err, output, <<>>, v.output2logits, g.gate, TRUE,
                      "none", v.nSoftmax, g.output, <<>>, v.trace, v.attn)
            ELSE The({
                Pass("ok", "", output, b.output, b.output2logits, g.gate, v.voted,
                     b.bg, v.nSoftmax + b.nSoftmax, g.output, v.output, v.trace, v.attn)
                : b \in {BgStage(cfg, v.output, v.output2logits)}})
            : v \in {VoteStage(cfg, g.output, FALSE, hasK, k)}})
        : g \in {GateStage(cfg, output, hasCls, sel)}})

\* ------------------------------------------------------------ configuration
\* vote_thresh as the caller passes it: a scalar or a list
Scalar(x) == [isList |-> FALSE, scalar |-> x, list |-> <<>>]
List(l) == [isList |-> TRUE, scalar |-> RZero, list |-> l]
DefaultVoteThresh == Scalar(RZero)
DefaultNumHeads == 32

\* __init__, lines 21-45: the options as the head stores them.
\*   if not isinstance(vote_thresh, list): vote_thresh = [vote_thresh] * num_vote
MaskClipHead(text_categories, text_channels, in_channels, num_classes, vit, bg_thresh, num_vote, vote_thresh, topk_text, cls_thresh, attn_pooling, num_heads) ==
    [text_categories |-> text_categories, text_channels |-> text_channels,
     in_channels |-> in_channels, num_classes |-> num_classes, vit |-> vit,
     bg_thresh |-> bg_thresh, num_vote |-> num_vote,
     vote_thresh_arg |-> vote_thresh,
     vote_thresh |-> IF vote_thresh.isList THEN vote_thresh.list
                     ELSE [i \in 1..num_vote |-> vote_thresh.scalar],
     topk_text |-> topk_text, cls_thresh |-> cls_thresh, attn_pooling |-> attn_pooling,
     num_heads |-> num_heads]

\* the option values explored
BgThreshVals == {RZero, <<1, 2>>}
ClsThreshVals == {RZero, <<2, 5>>}
TopkVals == {0, 2}
VoteThreshArgs == {DefaultVoteThresh, List(<<>>), List(<<<<3, 5>>, <<2, 5>>>>)}
\* (vit, attn_pooling, num_heads): attn_pooling is read only when vit is off,
\* num_heads only by the attention-pooled branch
ProjectorModes ==
    {<<TRUE, FALSE, DefaultNumHeads>>, <<FALSE, FALSE, DefaultNumHeads>>,
     <<FALSE, TRUE, 1>>, <<FALSE, TRUE, 2>>, <<FALSE, TRUE, DefaultNumHeads>>}

\* heads for the forward path: every combination of the refinement options,
\* with the channel counts of the projection artifact
FwdConfigs ==
    {MaskClipHead(tc, ClipTextChannels, ClipInChannels, nc, m[1], bg, nv, vt, tk, ct,
                  m[2], m[3]) :
        tc \in 1..MaxCat, nc \in 1..MaxCat, m \in ProjectorModes, bg \in BgThreshVals,
        nv \in 0..MaxVote, vt \in VoteThreshArgs, tk \in TopkVals, ct \in ClsThreshVals}

\* heads for the loaders: every shape, the refinement options at their defaults
LoadConfigs ==
    {MaskClipHead(tc, ch, ic, tc, vit, RZero, 0, DefaultVoteThresh, 0, RZero, FALSE,
                  DefaultNumHeads) :
        tc \in 1..MaxCat, ch \in 1..MaxChan, ic \in 1..MaxChan, vit \in BOOLEAN}

\* ------------------------------------------------------ inputs of a forward
\* a vector over 1..n: a at 1, b at 2, 0 elsewhere
Vec(n, a, b) == RVec([j \in 1..n |-> IF j = 1 THEN a ELSE IF j = 2 THEN b ELSE 0])

\* The backbone features x[n][p] (for a [x, q, k, v] bundle, v[n][p]): every
\* position holds one of three vectors.  A sample holds (1,0) and (0,1) at
\* most once each, which keeps every norm the head takes rational.  In the
\* patterns marked uniform every position of a sample holds the same vector.
Point(i, Ch) == CASE i = 1 -> Vec(Ch, 1, 0) [] i = 2 -> Vec(Ch, 0, 1) [] OTHER -> Vec(Ch, 1, 1)

XPatterns == {1, 2}
XMap(pat, uniform, N, Ch) ==
    T3([n \in 1..N |-> [p \in 1..HW |->
        IF uniform
        THEN Point(IF pat = 2 THEN 3 ELSE IF n % 2 = 1 THEN 1 ELSE 2, Ch)
        ELSE IF pat = 1
        THEN Point(IF n % 2 = 0 THEN 3 ELSE IF p <= 2 THEN p ELSE 3, Ch)
        ELSE Point(IF p = 1 THEN 1 ELSE 3, Ch)]])

\* the key tensor k[n][p] of a [x, q, k, v] bundle, shape (N, H*W, channels)
KeyPatterns == {1, 2}
KeyMap(pat, N, Ck) ==
    T3([n \in 1..N |-> [p \in 1..HW |->
        IF p = 1 THEN Vec(Ck, IF pat = 1 THEN 3 ELSE 4, 0)
        ELSE IF p = 2 THEN Vec(Ck, IF pat = 1 THEN 4 ELSE -3, 0)
        ELSE Vec(Ck, 0, 0)]])

\* the class-summary token cls_token[n] of a [x, cls_token] bundle
ClsPatterns == {1, 2}
ClsToken(pat, N, Ch) ==
    T2([n \in 1..N |-> Point(IF pat = 2 THEN 3 ELSE IF n % 2 = 1 THEN 1 ELSE 2, Ch)])

\* What forward is called with: self.training and the input bundle, a single
\* tensor x, [x, q, k, v] (x and q are not read) or [x, cls_token].  N is the
\* batch size.
Inputs(training, N, kind, x, v, k, cls_token) ==
    [training |-> training, N |-> N, kind |-> kind, x |-> x, v |-> v, k |-> k,
     cls_token |-> cls_token]

NoCall == Inputs(FALSE, 0, "none", <<>>, <<>>, <<>>, <<>>)

\* ------------------------------------------------------------------- state
VARIABLES
    cfg,              \* the options __init__ stored
    text_embeddings,  \* the registered buffer
    projs,            \* the projection convolutions, by attribute name
    textFile,         \* the artifact at text_embeddings_path
    projFile,         \* the artifact at visual_projs_path
    phase,            \* "new" | "ready" | "failed"
    loads,            \* the outcome of the last run of each loader
    pc,               \* "idle" | "returned"
    call,             \* the inputs of the pass in progress
    ret               \* what the pass returned, and its intermediate values

vars == <<cfg, text_embeddings, projs, textFile, projFile, phase, loads, pc, call, ret>>

NoLoads == [text |-> "none", projs |-> "none", n |-> 0]

\* ------------------------------------------------------------------ loading
\* load_text_embeddings(); load_visual_projs()  (lines 47-48 and 52-53): the
\* second loader runs only if the first returns.
LoadBoth ==
    LET t == LoadTextEmbeddings(text_embeddings, textFile)
        v == LoadVisualProjs(projs, projFile, cfg.vit)
    IN  /\ text_embeddings' = t.buf
        /\ projs' = IF t.ok THEN v.projs ELSE projs
        /\ loads' = [text  |-> IF t.ok THEN "ok" ELSE t.err,
                     projs |-> IF ~t.ok THEN "none" ELSE IF v.ok THEN "ok" ELSE v.err,
                     n     |-> IF loads.n < 2 THEN loads.n + 1 ELSE loads.n]
        /\ phase' = IF t.ok /\ v.ok THEN "ready" ELSE "failed"

\* __init__ (lines 14-48)
Construct ==
    /\ phase = "new"
    /\ LoadBoth
    /\ UNCHANGED <<cfg, textFile, projFile, pc, call, ret>>

\* init_weights (lines 50-53)
InitWeights ==
    /\ phase = "ready"
    /\ pc = "idle"
    /\ LoadBoth
    /\ UNCHANGED <<cfg, textFile, projFile, pc, call, ret>>

InitLoad ==
    /\ cfg \in LoadConfigs
    /\ textFile \in TextFiles
    /\ projFile \in ProjFiles
    /\ \E v \in RandnVals :
        /\ text_embeddings = FreshBuffer(cfg, v)
        /\ projs = FreshProjs(cfg, v)
    /\ phase = "new"
    /\ loads = NoLoads
    /\ pc = "idle"
    /\ call = NoCall
    /\ ret = NoPass

NextLoad == Construct \/ InitWeights

SpecLoad == InitLoad /\ [][NextLoad]_vars

\* ----------------------------------------------------------------- forward
\* The calls explored.  With vit, the bundle is a tensor, [x, q, k, v] or
\* [x, cls_token]; without vit it is a tensor.  The attention-pooled branch
\* is run on uniform samples, where every attention weight of a query is the
\* same.
Bundles(c, N) ==
    LET C == c.in_channels
    IN  IF c.vit
        THEN {Inputs(FALSE, N, "single", XMap(xp, FALSE, N, C), <<>>, <<>>, <<>>) :
                    xp \in XPatterns}
             \cup {Inputs(FALSE, N, "qkv", <<>>, XMap(xp, FALSE, N, C), KeyMap(kp, N, C), <<>>) :
                    xp \in XPatterns, kp \in KeyPatterns}
             \cup {Inputs(FALSE, N, "cls", XMap(xp, FALSE, N, C), <<>>, <<>>,
                           ClsToken(cp, N, C)) :
                    xp \in XPatterns, cp \in ClsPatterns}
        ELSE {Inputs(FALSE, N, "single", XMap(xp, c.attn_pooling, N, C), <<>>, <<>>, <<>>) :
                    xp \in XPatterns}

Calls(c) ==
    UNION {{[b EXCEPT !.training = t] : t \in BOOLEAN, b \in Bundles(c, N)} :
              N \in 1..MaxBatch}

\* cls_token = self.proj(cls_token[:, :, None, None])[:, :, 0, 0]
ProjectCls(conv, cls_token) ==
    T2([n \in DOMAIN cls_token |-> Linear(conv, cls_token[n])])

\* what forward hands to cls_seg and refine_output (lines 74-117): the
\* projected feature, the key tensor and the projected class-summary token.
\* Without vit and without attention pooling, q = q_proj(x) is computed and
\* never read.
Project(head, convs, bundle) ==
    IF head.vit
    THEN [ok |-> TRUE, err |-> "",
          feat |-> Conv2d(convs["proj"], IF bundle.kind = "qkv" THEN bundle.v ELSE bundle.x),
          hasK |-> bundle.kind = "qkv",
          k |-> IF bundle.kind = "qkv" THEN bundle.k ELSE <<>>,
          hasCls |-> bundle.kind = "cls",
          cls_token |-> IF bundle.kind = "cls"
                        THEN ProjectCls(convs["proj"], bundle.cls_token) ELSE <<>>]
    ELSE IF head.attn_pooling
    THEN The({[ok |-> r.ok, err |-> r.err, feat |-> r.feat, hasK |-> FALSE, k |-> <<>>,
               hasCls |-> FALSE, cls_token |-> <<>>]
              : r \in {AttnPool(convs, head.num_heads, bundle.x)}})
    ELSE [ok |-> TRUE, err |-> "",
          k |-> Conv2d(convs["k_proj"], bundle.x),
          feat |-> Conv2d(convs["c_proj"], Conv2d(convs["v_proj"], bundle.x)),
          hasK |-> TRUE, hasCls |-> FALSE, cls_token |-> <<>>]

\* the choices topk may make for the batch: one set of classes per sample
Selections(c, emb, ps, x) ==
    IF x.training \/ c.topk_text = 0 \/ x.kind # "cls" \/ c.topk_text > Len(emb)
    THEN {<<>>}
    ELSE LET pred == ClsPred(ProjectCls(ps["proj"], x.cls_token), emb)
         IN  {f \in [1..x.N -> SUBSET (1..Len(emb))] :
                \A n \in 1..x.N : f[n] \in TopkSets(pred[n], c.topk_text)}

\* forward (lines 72-122): the projections, the classifier, then, outside
\* training, the refinement
ForwardResult(c, emb, ps, x, sel) ==
    The({
        IF ~pr.ok
        THEN Pass("error", pr.err, <<>>, <<>>, FALSE, "none", FALSE, "none", 0,
                  <<>>, <<>>, <<>>, <<>>)
        ELSE The({
            IF x.training
            THEN Pass("ok", "", output, output, FALSE, "none", FALSE, "none", 0,
                      <<>>, <<>>, <<>>, <<>>)
            ELSE [RefineOutput(c, output, pr.hasK, pr.k, pr.hasCls, sel)
                    EXCEPT !.sel = sel, !.refined = TRUE]
            : output \in {ClsSeg(pr.feat, emb)}})
        : pr \in {Project(c, ps, x)}})

Forward ==
    /\ phase = "ready"
    /\ pc = "idle"
    /\ \E x \in Calls(cfg) : \E sel \in Selections(cfg, text_embeddings, projs, x) :
        /\ call' = x
        /\ ret' = ForwardResult(cfg, text_embeddings, projs, x, sel)
    /\ pc' = "returned"
    /\ UNCHANGED <<cfg, text_embeddings, projs, textFile, projFile, phase, loads>>

\* the caller takes the result; the pass's tensors are dropped
Return ==
    /\ pc = "returned"
    /\ pc' = "idle"
    /\ call' = NoCall
    /\ ret' = NoPass
    /\ UNCHANGED <<cfg, text_embeddings, projs, textFile, projFile, phase, loads>>

\* a head whose construction succeeded, on artifacts of the configured shapes
FwdEmbPatterns == {1, 3}

Init ==
    /\ cfg \in FwdConfigs
    /\ textFile \in {TextArtifact(pat, cfg.text_categories, cfg.text_channels) :
                        pat \in FwdEmbPatterns}
    /\ projFile = ClipArtifact(cfg.vit)
    /\ text_embeddings = LoadTextEmbeddings(FreshBuffer(cfg, 1), textFile).buf
    /\ projs = LoadVisualProjs(FreshProjs(cfg, 1), projFile, cfg.vit).projs
    /\ phase = "ready"
    /\ loads = [text |-> "ok", projs |-> "ok", n |-> 1]
    /\ pc = "idle"
    /\ call = NoCall
    /\ ret = NoPass

Next == Forward \/ Return

Spec == Init /\ [][Next]_vars

\* ================================================================== claims
Returned == pc = "returned"
Refined == Returned /\ ret.refined
RefinedOk == Refined /\ ret.status = "ok"
Positive(x) == RLt(RZero, x)
Samples == 1..call.N
Channels == 1..cfg.text_categories
Pixels == 1..HW
\* refine_output received a key tensor
HasKey == IF cfg.vit THEN call.kind = "qkv" ELSE ~cfg.attn_pooling
\* the condition of line 149
VotingRuns == HasKey /\ cfg.num_vote > 0
\* the condition of line 192, reached when line 190's fails
BgThreshRuns == cfg.text_categories <= cfg.num_classes /\ Positive(cfg.bg_thresh)

\* C1: top-k gating (evaluation mode, 0 < topk_text <= text_categories,
\* class-summary token present) completes, and in every sample and at every
\* position exactly the channels topk selected for that sample keep their
\* classifier score and every other channel is -100.
C1_TopkKeepsSelectedChannels ==
    (Refined /\ cfg.topk_text > 0 /\ cfg.topk_text <= cfg.text_categories
     /\ call.kind = "cls") =>
        /\ ret.status = "ok"
        /\ \A n \in Samples : \A c \in Channels : \A p \in Pixels :
              ret.gated[n][c][p] =
                  IF c \in ret.sel[n] THEN ret.raw[n][c][p] ELSE RInt(SENTINEL)

\* C2: confidence gating (topk_text = 0, cls_thresh = t > 0): a channel whose
\* largest sharpened-softmax confidence over the positions of a sample is
\* below t is -100 at every position of that sample; every other channel keeps
\* its raw logits at every position.
C2_ConfidenceGating ==
    (Refined /\ cfg.topk_text = 0 /\ Positive(cfg.cls_thresh)) =>
        \A n \in Samples : \A c \in Channels :
            LET conf == Softmax(ret.raw)
                m == RMaxSet({conf[n][c][p] : p \in Pixels})
            IN  \A p \in Pixels :
                    ret.gated[n][c][p] =
                        IF RLt(m, cfg.cls_thresh) THEN RInt(SENTINEL)
                        ELSE ret.raw[n][c][p]

\* C2 happens: in one sample a channel is suppressed while another is kept, a
\* kept channel is below the threshold at one of its positions, and the same
\* channel is suppressed in one sample and kept in the other.
C2_Witness ==
    /\ Refined /\ cfg.topk_text = 0 /\ Positive(cfg.cls_thresh) /\ call.N = 2
    /\ \E c \in Channels :
        /\ \A p \in Pixels : ret.gated[1][c][p] = RInt(SENTINEL)
        /\ \A p \in Pixels : ret.gated[2][c][p] = ret.raw[2][c][p]
        /\ ret.raw[2][c][1] # RInt(SENTINEL)
    /\ \E c \in Channels : \E p, q \in Pixels :
        /\ ret.gated[1][c] = ret.raw[1][c]
        /\ RLt(Softmax(ret.raw)[1][c][p], cfg.cls_thresh)
        /\ ~RLt(Softmax(ret.raw)[1][c][q], cfg.cls_thresh)

\* C3 as stated: with text_categories > num_classes the output has
\* num_classes + 1 channels, channel 0 is at every pixel the maximum of the RAW
\* classifier logits of the extra categories, and the other channels are the
\* first num_classes category channels, whatever the earlier stages did.
C3_BackgroundIsMaxOfRawExtras ==
    (RefinedOk /\ cfg.text_categories > cfg.num_classes) =>
        \A n \in Samples :
            /\ Len(ret.output[n]) = cfg.num_classes + 1
            /\ \A p \in Pixels :
                ret.output[n][1][p] =
                    RMaxSet({ret.raw[n][c][p] :
                                c \in (cfg.num_classes + 1)..cfg.text_categories})

\* C3 amended: with text_categories > num_classes the output has
\* num_classes + 1 channels, channel 0 is at every pixel the maximum over the
\* extra categories of the map the earlier stages produced (the raw logits
\* when no earlier stage ran), and channels 1..num_classes are the first
\* num_classes channels of that map.
C3_BackgroundIsMaxOfStagedExtras ==
    (RefinedOk /\ cfg.text_categories > cfg.num_classes) =>
        /\ (cfg.topk_text = 0 /\ ~Positive(cfg.cls_thresh) /\ ~VotingRuns) =>
              ret.preBg = ret.raw
        /\ \A n \in Samples :
            /\ Len(ret.output[n]) = cfg.num_classes + 1
            /\ \A p \in Pixels :
                ret.output[n][1][p] =
                    RMaxSet({ret.preBg[n][c][p] :
                                c \in (cfg.num_classes + 1)..cfg.text_categories})
            /\ \A c \in 1..cfg.num_classes : ret.output[n][c + 1] = ret.preBg[n][c]

\* C3 happens: two extra categories, an earlier stage changed their channels,
\* and the background channel differs from the maximum of their raw logits.
C3_Witness ==
    /\ RefinedOk /\ cfg.text_categories = cfg.num_classes + 2
    /\ ret.preBg # ret.raw
    /\ \E n \in Samples : \E p \in Pixels :
        ret.output[n][1][p] #
            RMaxSet({ret.raw[n][c][p] :
                        c \in (cfg.num_classes + 1)..cfg.text_categories})

\* C4: a forward call in training mode never returns an output tensor: it
\* ends in an error.
C4_TrainingForwardRaises ==
    (Returned /\ call.training) => ret.status = "error"

\* C5: a text-embedding load completes only for an artifact of exactly the
\* configured shape (text_categories, text_channels).
C5_ShapeMismatchIsFatal ==
    (phase # "new" /\ loads.text = "ok") =>
        textFile.shape = <<cfg.text_categories, cfg.text_channels>>

\* C6: an artifact that holds every projection of the head, with the head's
\* channel counts and bias entries, loads whether its weights are 2-D or
\* pre-expanded 4-D, and leaves each weight 4-D (out, in, 1, 1) with the
\* artifact's values.
WellFormedProjFile ==
    /\ projFile.exists
    /\ projFile.attrs = AllAttrs
    /\ \A i \in 1..Len(Attrs(cfg.vit)) :
        LET a == Attrs(cfg.vit)[i]
            sd == projFile.sub[a]
            o == OutOf(a, cfg.in_channels, cfg.text_channels)
        IN  /\ sd.weight.shape \in {<<o, cfg.in_channels>>, <<o, cfg.in_channels, 1, 1>>}
            /\ sd.hasBias = (a # "proj")
            /\ sd.hasBias => sd.bias.shape = <<o>>

C6_BothWeightFormatsLoad ==
    (phase # "new" /\ loads.text = "ok" /\ WellFormedProjFile) =>
        /\ loads.projs = "ok"
        /\ \A i \in 1..Len(Attrs(cfg.vit)) :
            LET a == Attrs(cfg.vit)[i]
            IN  /\ projs[a].weight.shape =
                      <<OutOf(a, cfg.in_channels, cfg.text_channels), cfg.in_channels, 1, 1>>
                /\ projs[a].weight.data = projFile.sub[a].weight.data

\* C7 as stated: when text_categories <= num_classes and bg_thresh is not
\* positive, the output has no background channel and exactly num_classes
\* channels.
C7_ChannelCountIsNumClasses ==
    (RefinedOk /\ cfg.text_categories <= cfg.num_classes /\ ~Positive(cfg.bg_thresh)) =>
        \A n \in Samples : Len(ret.output[n]) = cfg.num_classes

\* C7 amended: when text_categories <= num_classes and bg_thresh is not
\* positive, no background channel is prepended and the output has exactly
\* text_categories channels, which is num_classes exactly when the two counts
\* are equal.
C7_ChannelCountIsTextCategories ==
    (RefinedOk /\ cfg.text_categories <= cfg.num_classes /\ ~Positive(cfg.bg_thresh)) =>
        /\ ret.output = ret.preBg
        /\ \A n \in Samples :
            /\ Len(ret.raw[n]) = cfg.text_categories
            /\ Len(ret.output[n]) = cfg.text_categories
            /\ (Len(ret.output[n]) = cfg.num_classes)
                  = (cfg.text_categories = cfg.num_classes)

\* C7 happens: a head with fewer text categories than classes, no background
\* threshold and voting enabled returns a map of fewer than num_classes
\* channels.
C7_Witness ==
    /\ RefinedOk /\ cfg.text_categories < cfg.num_classes /\ ~Positive(cfg.bg_thresh)
    /\ Len(ret.output[1]) < cfg.num_classes
    /\ VotingRuns

\* C8: in every vote iteration, with thresholds configured exactly the pixels
\* whose largest confidence before the vote is below the iteration's
\* threshold take the affinity-weighted combination and the others keep their
\* distribution; with vote_thresh left at its default (or no threshold
\* given), every pixel takes the affinity-weighted combination.
ThresholdsConfigured ==
    cfg.vote_thresh_arg # DefaultVoteThresh /\ cfg.vote_thresh_arg # List(<<>>)

C8_VoteUpdateRule ==
    (RefinedOk /\ VotingRuns) =>
        \A i \in 1..cfg.num_vote :
            LET before == ret.trace[i]
                after == ret.trace[i + 1]
                combined == VoteOutput(ret.attn, before)
            IN  \A n \in Samples : \A c \in Channels : \A p \in Pixels :
                    after[n][c][p] =
                        IF ThresholdsConfigured
                           /\ ~RLt(MaxConf(before, n, p), cfg.vote_thresh[i])
                        THEN before[n][c][p]
                        ELSE combined[n][c][p]

\* C9: top-k gating is checked first and confidence gating runs only when
\* topk_text = 0 and cls_thresh > 0, so at most one of them changes the
\* logits and neither does when both are 0; voting then works on the gated
\* map and background synthesis on the voted one.
C9_StagePrecedence ==
    RefinedOk =>
        \* top-k alone decides when topk_text > 0: the class-summary token was
        \* given, and a sample is the raw sample or all -100, whatever cls_thresh is
        /\ cfg.topk_text > 0 =>
            /\ call.kind = "cls"
            /\ \A n \in Samples : \A c \in Channels : \A p \in Pixels :
                ret.gated[n][c][p] =
                    IF \E m \in Samples : n \in ret.sel[m] THEN ret.raw[n][c][p]
                    ELSE RInt(SENTINEL)
        \* confidence gating runs exactly when topk_text = 0 and cls_thresh > 0
        /\ (cfg.topk_text = 0 /\ Positive(cfg.cls_thresh)) =>
            \A n \in Samples : \A c \in Channels : \A p \in Pixels :
                ret.gated[n][c][p] =
                    IF \A q \in Pixels : RLt(Softmax(ret.raw)[n][c][q], cfg.cls_thresh)
                    THEN RInt(SENTINEL) ELSE ret.raw[n][c][p]
        /\ (cfg.topk_text = 0 /\ ~Positive(cfg.cls_thresh)) => ret.gated = ret.raw
        \* voting starts from the gated map
        /\ VotingRuns =>
            /\ Len(ret.trace) = cfg.num_vote + 1
            /\ ret.trace[1] = Softmax(ret.gated)
            /\ ret.preBg = ret.trace[cfg.num_vote + 1]
        /\ ~VotingRuns => ret.trace = <<>> /\ ret.preBg = ret.gated
        \* background synthesis works on the voted map
        /\ cfg.text_categories > cfg.num_classes =>
            \A n \in Samples : \A c \in 1..cfg.num_classes :
                ret.output[n][c + 1] = ret.preBg[n][c]
        /\ BgThreshRuns =>
            \A n \in Samples : \A c \in Channels :
                ret.output[n][c + 1] =
                    (IF VotingRuns THEN ret.preBg
                     ELSE Softmax(ret.preBg))[n][c]
        /\ (cfg.text_categories <= cfg.num_classes /\ ~Positive(cfg.bg_thresh)) =>
            ret.output = ret.preBg

\* C9 happens: both gatings are configured, top-k gating kept a sample whose
\* channels confidence gating would have suppressed, and a background channel
\* was prepended to the gated map.
C9_Witness ==
    /\ RefinedOk /\ cfg.topk_text > 0 /\ Positive(cfg.cls_thresh)
    /\ \E n \in Samples : \E c \in Channels :
        /\ ret.gated[n][c] = ret.raw[n][c]
        /\ \A q \in Pixels : RLt(Softmax(ret.raw)[n][c][q], cfg.cls_thresh)
    /\ \E n \in Samples : Len(ret.output[n]) = cfg.num_classes + 1

\* C10: the flag is set exactly when the output was replaced by its sharpened
\* softmax, which happens at most once in a pass: voting converts the gated
\* map; the bg_thresh branch converts only if voting did not, then prepends the
\* constant bg_thresh channel; with neither, the output is never converted.
C10_ConvertedAtMostOnce ==
    Refined =>
        /\ ret.nSoftmax <= 1
        /\ ret.output2logits = (ret.nSoftmax = 1)
        /\ ret.status = "ok" =>
            /\ ret.output2logits = (VotingRuns \/ BgThreshRuns)
            /\ VotingRuns => ret.trace[1] = Softmax(ret.gated)
            /\ ~VotingRuns => ret.preBg = ret.gated
            /\ BgThreshRuns =>
                \A n \in Samples :
                    /\ Len(ret.output[n]) = cfg.text_categories + 1
                    /\ \A p \in Pixels : ret.output[n][1][p] = cfg.bg_thresh
                    /\ \A c \in Channels :
                          ret.output[n][c + 1] =
                              (IF VotingRuns THEN ret.preBg ELSE Softmax(ret.preBg))[n][c]
            /\ (~VotingRuns /\ cfg.text_categories > cfg.num_classes) =>
                \A n \in Samples : \A c \in 1..cfg.num_classes :
                    ret.output[n][c + 1] = ret.gated[n][c]
            /\ (~VotingRuns /\ cfg.text_categories <= cfg.num_classes
                /\ ~Positive(cfg.bg_thresh)) => ret.output = ret.gated

\* C10 happens: voting converted the map and the bg_thresh branch ran after it
\* without converting again.
C10_Witness ==
    /\ RefinedOk /\ VotingRuns /\ BgThreshRuns
    /\ ret.nSoftmax = 1
    /\ ret.preBg # Softmax(ret.gated)

====
